---- MODULE Spec2Model ----
(***************************************************************************)
(* Model of the transcript bridge of orbitz-translator                     *)
(* (src/components/DatabaseBridge.tsx) and of the parts of the live-API    *)
(* hook it drives (src/lib/state.ts): snapshot de-duplication,             *)
(* segmentation, the segment queue, the consumer loop processQueueLoop     *)
(* with its two playback waits, and the commit of translation records.     *)
(*                                                                         *)
(* Text is modelled as a sequence of tokens.  A token is either a          *)
(* whitespace character ("sp", "nl", "cr"), or an atom standing for a      *)
(* fixed run of non-whitespace characters: a speaker tag as the source     *)
(* spells it ("Male 1:"), the filler literal "(clears throat)", a stage    *)
(* direction, or a word.                                                   *)
(***************************************************************************)
EXTENDS Integers, Sequences, FiniteSets, TLC

\* ------------------------------------------------------------------ bounds
\* Slots for consumer-loop instances that are suspended at an await.
MaxLoops == 2
\* Snapshots accepted by processNewData over a run of Spec, of SpecText and
\* of SpecPlay.
MaxAccepted == 2
MaxAcceptedText == 3
MaxAcceptedPlay == 1
\* Snapshots accepted over a run of SpecReconnect and of SpecPoll.
MaxAcceptedReconnect == 1
MaxAcceptedPoll == 2
\* Snapshots accepted over a run of SpecDrop.
MaxAcceptedDrop == 2
\* Poll requests (fetchLatest) whose response is still outstanding.
MaxFetch == 1
\* Tokens of streamed translation text held in the translation buffer.
MaxBuf == 1
\* The polls that fail in one run.
MaxFailed == 2
\* How many calls of connect() are under way at a time.
MaxConnectCalls == 1
\* The store operations called in one run.
MaxStoreCalls == 4

\* --------------------------------------------------------------- text
Whitespace == {"sp", "nl", "cr"}

ClearsThroat == <<"(clears throat)">>

\* String.prototype.trim on a token sequence.
RECURSIVE TrimLeft(_)
TrimLeft(s) ==
  IF s # <<>> /\ Head(s) \in Whitespace THEN TrimLeft(Tail(s)) ELSE s

RECURSIVE TrimRight(_)
TrimRight(s) ==
  IF s # <<>> /\ s[Len(s)] \in Whitespace
    THEN TrimRight(SubSeq(s, 1, Len(s) - 1))
    ELSE s

Trim(s) == TrimRight(TrimLeft(s))

\* text.split(/\r?\n+/): `cur` is the piece being read, `inSep` says that the
\* tokens just before s were consumed by a match of the separator.
RECURSIVE SplitLines(_, _, _)
SplitLines(s, cur, inSep) ==
  IF s = <<>> THEN <<cur>>
  ELSE IF Head(s) = "nl"
    THEN IF inSep
           THEN SplitLines(Tail(s), cur, TRUE)
           ELSE <<cur>> \o SplitLines(Tail(s), <<>>, TRUE)
  ELSE IF Head(s) = "cr" /\ Len(s) >= 2 /\ s[2] = "nl"
    THEN <<cur>> \o SplitLines(Tail(Tail(s)), <<>>, TRUE)
  ELSE SplitLines(Tail(s), Append(cur, Head(s)), FALSE)

RECURSIVE MapTrim(_)
MapTrim(ps) ==
  IF ps = <<>> THEN <<>> ELSE <<Trim(Head(ps))>> \o MapTrim(Tail(ps))

RECURSIVE NonEmpty(_)
NonEmpty(ps) ==
  IF ps = <<>> THEN <<>>
  ELSE IF Len(Head(ps)) > 0 THEN <<Head(ps)>> \o NonEmpty(Tail(ps))
  ELSE NonEmpty(Tail(ps))

\* A segmentText that does not trim the pieces.
segmentTextNoTrim(text) ==
  IF text = <<>> THEN <<>> ELSE NonEmpty(SplitLines(text, <<>>, FALSE))

segmentText(text) ==
  IF text = <<>> THEN <<>> ELSE NonEmpty(MapTrim(SplitLines(text, <<>>, FALSE)))

\* rawText.startsWith(tag), tag being one token.
StartsWith(s, tag) == s # <<>> /\ Head(s) = tag

\* The if / else-if chain of processQueueLoop that picks the target channel.
TargetSpeaker(rawText) ==
  IF StartsWith(rawText, "Male 1:") THEN "Male 1"
  ELSE IF StartsWith(rawText, "Male 2:") THEN "Male 2"
  ELSE IF StartsWith(rawText, "Female 1:") THEN "Female 1"
  ELSE IF StartsWith(rawText, "Female 2:") THEN "Female 2"
  ELSE "default"

\* rawText.replace(tag, '').trim() in the branch taken, rawText otherwise.
TextToSend(rawText) ==
  IF StartsWith(rawText, "Male 1:") THEN Trim(Tail(rawText))
  ELSE IF StartsWith(rawText, "Male 2:") THEN Trim(Tail(rawText))
  ELSE IF StartsWith(rawText, "Female 1:") THEN Trim(Tail(rawText))
  ELSE IF StartsWith(rawText, "Female 2:") THEN Trim(Tail(rawText))
  ELSE rawText

Styles ==
  {"natural", "conversational", "formal", "enthusiastic", "breathy", "dramatic"}

\* A style switch that wraps every text in the style the session starts with.
ScriptedTextCasual(textToSend, style) ==
  IF textToSend = ClearsThroat THEN textToSend
  ELSE <<"(casually)", "sp">> \o textToSend

\* A style switch whose breathy and dramatic cases lose their trailing
\* direction.
ScriptedTextNoSuffix(textToSend, style) ==
  IF textToSend = ClearsThroat THEN textToSend
  ELSE CASE style = "breathy" -> <<"(soft inhale)", "sp">> \o textToSend
         [] style = "dramatic" -> <<"(slowly)", "sp">> \o textToSend
         [] style = "enthusiastic" -> <<"(excitedly)", "sp">> \o textToSend
         [] style = "formal" -> <<"(professionally)", "sp">> \o textToSend
         [] style = "conversational" -> <<"(casually)", "sp">> \o textToSend
         [] OTHER -> textToSend

\* The style switch of processQueueLoop; the template literals put one space
\* between a stage direction and the text.
ScriptedText(textToSend, style) ==
  IF textToSend = ClearsThroat THEN textToSend
  ELSE CASE style = "breathy" ->
              <<"(soft inhale)", "sp">> \o textToSend \o <<"sp", "...", "sp", "(pause)">>
         [] style = "dramatic" ->
              <<"(slowly)", "sp">> \o textToSend \o <<"sp", "...", "sp", "(long pause)">>
         [] style = "enthusiastic" -> <<"(excitedly)", "sp">> \o textToSend
         [] style = "formal" -> <<"(professionally)", "sp">> \o textToSend
         [] style = "conversational" -> <<"(casually)", "sp">> \o textToSend
         [] OTHER -> textToSend

\* ------------------------------------------------- channels and playback
\* SPEAKERS of the live-API hook: one streamer and one client per key.
Speakers == {"default", "Male 1", "Male 2", "Female 1", "Female 2"}

\* Playback times are counted in tenths of a second.
ArrivalSlack == 1
DrainThreshold == 5
\* Length of the audio a channel returns for one send.
AudioLen == 10
\* The elapsed-time tests of the two waits, counted in polls: the arrival wait
\* gives up after 15 s of 250 ms polls, the drain wait after 60 s of 100 ms
\* polls.  A poll may take any number of poll periods.
ArrivalMaxPolls == 2
DrainMaxPolls == 2

\* ------------------------------------------------------------- snapshots
NoId == 0
NoRef == 0
NoTurn == 0

\* The rows the transcript source can deliver: refData of a queue item is the
\* index of the row it was cut from.
SnapshotTable ==
  << [id |-> 1, full_transcript_text |-> <<"Male 1:", "sp", "a", "nl", "b">>],
     [id |-> 2, full_transcript_text |-> <<"c">>],
     [id |-> 2, full_transcript_text |->
                  <<"Female 2:", "cr", "nl", "nl", "(clears throat)">>],
     [id |-> 1, full_transcript_text |->
                  <<"Male 2:", "b", "nl", "sp", "Male 3:", "sp", "c", "sp">>],
     [id |-> 3, full_transcript_text |-> <<"sp", "nl", "nl", "sp">>],
     [id |-> 2, full_transcript_text |-> <<>>],
     [id |-> 3, full_transcript_text |-> <<"Female 1:", "sp", "sp", "a">>],
     [id |-> 3, full_transcript_text |->
                  <<"a", "nl", "Female 1:", "b", "cr", "nl", "c">>],
     [id |-> 4, full_transcript_text |-> <<"Male 2:", "sp">>] >>

\* The rows the source delivers in Spec, in SpecText and in SpecPlay.
Rows == {1, 2}
RowsText == {1, 3, 4, 5, 6, 7}
RowsPlay == {1, 8}
RowsPoll == {1, 2, 4}
RowsDrop == {3, 9}
RowsSegment == {3, 4, 5, 6, 7, 8}

NoItem == [text |-> <<>>, refData |-> NoRef, turnId |-> NoTurn]

\* The locals of one instance of processQueueLoop; elapsed is Date.now() less
\* waitStart (less playStart in the drain wait), in poll periods.
NoLoop ==
  [pc |-> "none", wait |-> "none", item |-> NoItem, targetSpeaker |-> "default",
   style |-> "natural", scriptedText |-> <<>>, preSendEnd |-> 0,
   audioArrived |-> FALSE, elapsed |-> 0]

\* Date.now() less waitStart and Date.now() less playStart, in poll periods,
\* as the tests that last ended an arrival wait, and went on into the drain
\* wait, read them.
NoPoll == [arrival |-> 0, drain |-> 0]

\* connect() of the live-API hook awaits the five clients in this order.
ConnectOrder == <<"default", "Male 1", "Male 2", "Female 1", "Female 2">>

\* What an awaited client.connect(config) comes to: the channel reports
\* success or failure as its result, or the promise is rejected.
ConnectResults == {"success", "failure", "thrown"}

\* No store operation was called yet; n counts the calls.
NoOp == [n |-> 0, op |-> "none", key |-> 0, value |-> 0]

\* A call of connect(): the attempt it awaits (0: none, the call is over or
\* was never made), the attempts it has made with what each came to, and
\* whether an error reached its caller.
NoCall == [pc |-> 0, attempts |-> <<>>, propagated |-> FALSE]

VARIABLES
  connected,                 \* the `connected` the data effect last ran with
  clientStatus,              \* client.status of the main client
  voiceStyle,                \* voiceStyleRef.current
  worker,                    \* workerRef.current is a live worker
  pendingFetch,              \* fetchLatest calls awaiting their response
  lastProcessedId,           \* lastProcessedIdRef.current
  paragraphCount,            \* paragraphCountRef.current
  queue,                     \* queueRef.current
  isProcessing,              \* isProcessingRef.current
  currentTurnId,             \* currentTurnIdRef.current
  currentTranslationBuffer,  \* currentTranslationBufferRef.current
  loops,                     \* the suspended instances of processQueueLoop
  endOfQueueTime,            \* per streamer
  duration,                  \* per streamer
  due,                       \* per channel: what it still owes for its last send
  turns,                     \* the log store's turns, as addTurn built them
  segmented,                 \* history: the rows handed to segmentText, in order
  seen,                      \* history: the ids delivered with a text, by first delivery
  lastDelivered,             \* history: the row last handed to processNewData
  failed,                    \* history: the fetchLatest calls that failed so far
  abortedItem,               \* history: the head the last abort left queued, while it is
  speakerStatus,             \* status of the four speaker clients
  polled,                    \* history: the clocks read when a wait last ended
  connecting,                \* the calls of connect() under way, and what they attempted
  tools,                     \* the tools store's tools
  called,                    \* history: the store operation last called, with its arguments
  enqueued,                  \* history: every item pushed on the queue, in order
  dispatched                 \* history: the real items sent, in order

vars ==
  <<connected, clientStatus, voiceStyle, worker, pendingFetch, lastProcessedId,
    paragraphCount, queue, isProcessing, currentTurnId, currentTranslationBuffer,
    loops, endOfQueueTime, duration, due, turns, segmented, seen, enqueued,
    dispatched, lastDelivered, failed, abortedItem, speakerStatus, polled,
    connecting, tools, called>>

Init ==
  /\ connected = FALSE
  /\ clientStatus = "disconnected"
  /\ voiceStyle = "conversational"
  /\ worker = FALSE
  /\ pendingFetch = 0
  /\ lastProcessedId = NoId
  /\ paragraphCount = 0
  /\ queue = <<>>
  /\ isProcessing = FALSE
  /\ currentTurnId = NoTurn
  /\ currentTranslationBuffer = <<>>
  /\ loops = [i \in 1..MaxLoops |-> NoLoop]
  /\ endOfQueueTime = [c \in Speakers |-> 0]
  /\ duration = [c \in Speakers |-> 0]
  /\ due = [c \in Speakers |-> {}]
  /\ turns = <<>>
  /\ segmented = <<>>
  /\ seen = <<>>
  /\ enqueued = <<>>
  /\ dispatched = <<>>
  /\ lastDelivered = NoRef
  /\ failed = 0
  /\ abortedItem = NoItem
  /\ speakerStatus = [c \in Speakers \ {"default"} |-> "disconnected"]
  /\ polled = NoPoll
  /\ connecting = [j \in 1..MaxConnectCalls |-> NoCall]
  /\ tools = <<>>
  /\ called = NoOp

\* A playback query that always answers for the default streamer.
getAudioStreamerStateDefault(speaker) ==
  [duration |-> duration["default"], endOfQueueTime |-> endOfQueueTime["default"]]

getAudioStreamerState(speaker) ==
  LET target == IF speaker \in Speakers THEN speaker ELSE "default"
  IN  [duration |-> duration[target], endOfQueueTime |-> endOfQueueTime[target]]

\* The client sendToSpeaker hands the text to.
sendToSpeaker(speaker) ==
  IF speaker \in {"Male 1", "Male 2", "Female 1", "Female 2"}
    THEN speaker
    ELSE "default"

\* workerWait: through the worker when there is one, else an ordinary timer.
workerWait == IF worker THEN "worker" ELSE "timer"

FreeSlots == {i \in 1..MaxLoops : loops[i].pc = "none"}
FreeSlot == CHOOSE i \in FreeSlots : \A j \in FreeSlots : i <= j

\* ------------------------------------------------------- the consumer loop
\* A loop head that takes the newest item of the queue, not the oldest.
RECURSIVE LoopHeadLast(_, _)
LoopHeadLast(q, turn) ==
  IF q = <<>> THEN [kind |-> "drained", queue |-> q, turn |-> turn, item |-> NoItem]
  ELSE IF clientStatus # "connected"
    THEN [kind |-> "aborted", queue |-> q, turn |-> turn, item |-> NoItem]
  ELSE LET item == q[Len(q)]
           rest == SubSeq(q, 1, Len(q) - 1)
           scripted == ScriptedText(TextToSend(item.text), voiceStyle)
       IN  IF Trim(scripted) = <<>>
             THEN LoopHeadLast(rest, item.turnId)
             ELSE [kind |-> "send", queue |-> rest, turn |-> item.turnId,
                   item |-> item]

\* A loop head that empties the queue when it finds the client not connected.
RECURSIVE LoopHeadAbandon(_, _)
LoopHeadAbandon(q, turn) ==
  IF q = <<>> THEN [kind |-> "drained", queue |-> q, turn |-> turn, item |-> NoItem]
  ELSE IF clientStatus # "connected"
    THEN [kind |-> "drained", queue |-> <<>>, turn |-> turn, item |-> NoItem]
  ELSE LET item == Head(q)
           scripted == ScriptedText(TextToSend(item.text), voiceStyle)
       IN  IF Trim(scripted) = <<>>
             THEN LoopHeadAbandon(Tail(q), item.turnId)
             ELSE [kind |-> "send", queue |-> Tail(q), turn |-> item.turnId,
                   item |-> item]

\* A loop head that sends the head item and leaves it in the queue.
RECURSIVE LoopHeadKeep(_, _)
LoopHeadKeep(q, turn) ==
  IF q = <<>> THEN [kind |-> "drained", queue |-> q, turn |-> turn, item |-> NoItem]
  ELSE IF clientStatus # "connected"
    THEN [kind |-> "aborted", queue |-> q, turn |-> turn, item |-> NoItem]
  ELSE LET item == Head(q)
           scripted == ScriptedText(TextToSend(item.text), voiceStyle)
       IN  IF Trim(scripted) = <<>>
             THEN LoopHeadKeep(Tail(q), item.turnId)
             ELSE [kind |-> "send", queue |-> q, turn |-> item.turnId,
                   item |-> item]

\* The head of the while loop of processQueueLoop, run until it sends an item
\* or returns: the connection check, the turn context, and the drop of items
\* whose scripted text is blank.  `turn` is currentTurnIdRef.current so far.
RECURSIVE LoopHead(_, _)
LoopHead(q, turn) ==
  IF q = <<>> THEN [kind |-> "drained", queue |-> q, turn |-> turn, item |-> NoItem]
  ELSE IF clientStatus # "connected"
    THEN [kind |-> "aborted", queue |-> q, turn |-> turn, item |-> NoItem]
  ELSE LET item == Head(q)
           scripted == ScriptedText(TextToSend(item.text), voiceStyle)
       IN  IF Trim(scripted) = <<>>
             THEN LoopHead(Tail(q), item.turnId)
             ELSE [kind |-> "send", queue |-> Tail(q), turn |-> item.turnId,
                   item |-> item]

\* A run of the loop that sends an item without clearing the translation
\* buffer first.
RunLoopKeepsBuffer(i, q, turn, wait, flag) ==
  LET r == LoopHead(q, turn)
      target == TargetSpeaker(r.item.text)
  IN  /\ queue' = r.queue
      /\ abortedItem' = IF r.kind = "aborted" THEN Head(r.queue) ELSE NoItem
      /\ currentTurnId' = r.turn
      /\ UNCHANGED currentTranslationBuffer
      /\ IF r.kind = "send"
           THEN /\ loops' = [loops EXCEPT ![i] =
                     [pc |-> "arrival", wait |-> wait, item |-> r.item,
                      targetSpeaker |-> target, style |-> voiceStyle,
                      scriptedText |->
                        ScriptedText(TextToSend(r.item.text), voiceStyle),
                      preSendEnd |-> getAudioStreamerState(target).endOfQueueTime,
                      audioArrived |-> FALSE, elapsed |-> 0]]
                /\ isProcessing' = flag
                /\ due' = [due EXCEPT ![sendToSpeaker(target)] = {"audio", "text"}]
                /\ dispatched' = IF r.item.refData # NoRef
                                   THEN Append(dispatched, r.item)
                                   ELSE dispatched
           ELSE /\ loops' = [loops EXCEPT ![i] = NoLoop]
                /\ isProcessing' = FALSE
                /\ UNCHANGED <<due, dispatched>>

\* Instance i of processQueueLoop runs from the head of its while loop, over
\* queue q, to its next await or to its return.  `flag` is what
\* isProcessingRef holds while the instance goes on.
RunLoop(i, q, turn, wait, flag) ==
  LET r == LoopHead(q, turn)
      target == TargetSpeaker(r.item.text)
  IN  /\ queue' = r.queue
      /\ abortedItem' = IF r.kind = "aborted" THEN Head(r.queue) ELSE NoItem
      /\ currentTurnId' = r.turn
      /\ IF r.kind = "send"
           THEN /\ currentTranslationBuffer' = <<>>
                /\ loops' = [loops EXCEPT ![i] =
                     [pc |-> "arrival", wait |-> wait, item |-> r.item,
                      targetSpeaker |-> target, style |-> voiceStyle,
                      scriptedText |->
                        ScriptedText(TextToSend(r.item.text), voiceStyle),
                      preSendEnd |-> getAudioStreamerState(target).endOfQueueTime,
                      audioArrived |-> FALSE, elapsed |-> 0]]
                /\ isProcessing' = flag
                /\ due' = [due EXCEPT ![sendToSpeaker(target)] = {"audio", "text"}]
                /\ dispatched' = IF r.item.refData # NoRef
                                   THEN Append(dispatched, r.item)
                                   ELSE dispatched
           ELSE /\ loops' = [loops EXCEPT ![i] = NoLoop]
                /\ isProcessing' = FALSE
                /\ UNCHANGED <<currentTranslationBuffer, due, dispatched>>

\* A processQueueLoop that does not test the flag.
processQueueLoopUnguarded(q, wait) ==
  /\ FreeSlots # {}
  /\ RunLoop(FreeSlot, q, currentTurnId, wait, TRUE)

\* A call of processQueueLoop over queue q: a no-op while the flag is set.
processQueueLoop(q, wait) ==
  IF isProcessing
    THEN /\ queue' = q
         /\ UNCHANGED <<abortedItem, currentTurnId, currentTranslationBuffer,
                        loops, isProcessing, due, dispatched>>
    ELSE /\ FreeSlots # {}
         /\ RunLoop(FreeSlot, q, currentTurnId, wait, TRUE)

\* A commit step that does not look at refData.
CommitAnyItem(i) ==
  IF Len(Trim(currentTranslationBuffer)) > 0
    THEN /\ loops' = [loops EXCEPT ![i].pc = "insert", ![i].wait = "insert"]
         /\ UNCHANGED <<queue, abortedItem, currentTurnId,
                        currentTranslationBuffer, isProcessing, due,
                        dispatched>>
    ELSE RunLoop(i, queue, NoTurn, workerWait, isProcessing)

\* The commit step of instance i and what follows it without an await.
Commit(i) ==
  IF loops[i].item.refData # NoRef /\ Len(Trim(currentTranslationBuffer)) > 0
    THEN /\ loops' = [loops EXCEPT ![i].pc = "insert", ![i].wait = "insert"]
         /\ UNCHANGED <<queue, abortedItem, currentTurnId,
                        currentTranslationBuffer, isProcessing, due,
                        dispatched>>
    ELSE RunLoop(i, queue, NoTurn, workerWait, isProcessing)

Min(a, b) == IF a < b THEN a ELSE b

\* A drain wait that never waits.
DrainWaitNone(i, arrived, elapsed) == Commit(i)

\* One test of the drain wait of instance i, `elapsed` poll periods after
\* playStart; `arrived` is the audioArrived the arrival wait ended with.
DrainWait(i, arrived, elapsed) ==
  IF elapsed >= DrainMaxPolls
       \/ getAudioStreamerState(loops[i].targetSpeaker).duration <= DrainThreshold
    THEN Commit(i)
    ELSE /\ loops' = [loops EXCEPT ![i].pc = "drain", ![i].wait = workerWait,
                                   ![i].audioArrived = arrived,
                                   ![i].elapsed = elapsed]
         /\ UNCHANGED <<queue, abortedItem, currentTurnId,
                        currentTranslationBuffer, isProcessing, due,
                        dispatched>>

Resumable(i) == loops[i].wait \in {"worker", "timer"}

\* An arrival wait that ends the first time its timer fires.
ArrivalWakeOnce(i, periods) ==
  /\ loops[i].pc = "arrival"
  /\ Resumable(i)
  /\ polled' = [arrival |-> Min(loops[i].elapsed + periods, ArrivalMaxPolls),
                drain |-> 0]
  /\ DrainWait(i, FALSE, 0)
  /\ UNCHANGED <<connected, clientStatus, voiceStyle, failed, connecting, tools, called,
                 speakerStatus,
                 worker, pendingFetch, lastProcessedId, paragraphCount,
                 endOfQueueTime, duration, turns, segmented, lastDelivered,
                 seen, enqueued>>

\* workerWait(250) of the arrival wait resolves, `periods` poll periods after
\* it was called.
ArrivalWake(i, periods) ==
  /\ loops[i].pc = "arrival"
  /\ Resumable(i)
  /\ LET elapsed == Min(loops[i].elapsed + periods, ArrivalMaxPolls)
         st == getAudioStreamerState(loops[i].targetSpeaker)
         audioArrived ==
           elapsed < ArrivalMaxPolls
             /\ st.endOfQueueTime > loops[i].preSendEnd + ArrivalSlack
     IN  /\ polled' = IF elapsed >= ArrivalMaxPolls \/ audioArrived
                          THEN [arrival |-> elapsed, drain |-> 0]
                          ELSE polled
         /\ IF elapsed >= ArrivalMaxPolls \/ audioArrived
              THEN DrainWait(i, audioArrived, 0)
              ELSE /\ loops' = [loops EXCEPT ![i].wait = workerWait,
                                             ![i].elapsed = elapsed]
                   /\ UNCHANGED <<queue, abortedItem, currentTurnId,
                                  currentTranslationBuffer, isProcessing, due,
                                  dispatched>>
  /\ UNCHANGED <<connected, clientStatus, voiceStyle, failed, connecting, tools, called,
                 speakerStatus,
                 worker, pendingFetch, lastProcessedId, paragraphCount,
                 endOfQueueTime, duration, turns, segmented, lastDelivered,
                 seen, enqueued>>

\* workerWait(100) of the drain wait resolves, `periods` poll periods after it
\* was called.
DrainWake(i, periods) ==
  /\ loops[i].pc = "drain"
  /\ Resumable(i)
  /\ DrainWait(i, loops[i].audioArrived,
               Min(loops[i].elapsed + periods, DrainMaxPolls))
  /\ polled' = [arrival |-> 0,
                drain |-> Min(loops[i].elapsed + periods, DrainMaxPolls)]
  /\ UNCHANGED <<connected, clientStatus, voiceStyle, failed, connecting, tools, called,
                 speakerStatus,
                 worker, pendingFetch, lastProcessedId, paragraphCount,
                 endOfQueueTime, duration, turns, segmented, lastDelivered,
                 seen, enqueued>>

\* An insert whose settling ends the loop with the queue as it is.
InsertDoneAborts(i) ==
  /\ loops[i].pc = "insert"
  /\ loops' = [loops EXCEPT ![i] = NoLoop]
  /\ isProcessing' = FALSE
  /\ currentTurnId' = NoTurn
  /\ UNCHANGED <<queue, abortedItem, currentTranslationBuffer, due, dispatched>>
  /\ UNCHANGED <<connected, clientStatus, voiceStyle, failed, polled,
                 connecting, tools, called, speakerStatus,
                 worker, pendingFetch, lastProcessedId, paragraphCount,
                 endOfQueueTime, duration, turns, segmented, lastDelivered,
                 seen, enqueued>>

\* The insert of the commit step settles, with a record or with an error.
InsertDone(i) ==
  /\ loops[i].pc = "insert"
  /\ RunLoop(i, queue, NoTurn, workerWait, isProcessing)
  /\ UNCHANGED <<connected, clientStatus, voiceStyle, failed, polled,
                 connecting, tools, called, speakerStatus,
                 worker, pendingFetch, lastProcessedId, paragraphCount,
                 endOfQueueTime, duration, turns, segmented, lastDelivered,
                 seen, enqueued>>

\* ------------------------------------------------------------- ingestion
\* A forEach that counts the paragraphs of each snapshot from zero.
RECURSIVE NewItemsPerSnapshot(_, _, _, _, _)
NewItemsPerSnapshot(segs, ref, n, t, m) ==
  IF segs = <<>> THEN <<>>
  ELSE <<[text |-> Head(segs), refData |-> ref, turnId |-> t + 1]>>
       \o (IF (m + 1) % 3 = 0
             THEN <<[text |-> ClearsThroat, refData |-> NoRef, turnId |-> NoTurn]>>
             ELSE <<>>)
       \o NewItemsPerSnapshot(Tail(segs), ref, n + 1, t + 1, m + 1)

NewItemsFromZero(segs, ref, n, t) == NewItemsPerSnapshot(segs, ref, n, t, 0)

\* The forEach of processNewData over the segments left to enqueue: n is
\* paragraphCountRef.current and t the last turn id handed out so far.
RECURSIVE NewItems(_, _, _, _)
NewItems(segs, ref, n, t) ==
  IF segs = <<>> THEN <<>>
  ELSE <<[text |-> Head(segs), refData |-> ref, turnId |-> t + 1]>>
       \o (IF n + 1 > 0 /\ (n + 1) % 3 = 0
             THEN <<[text |-> ClearsThroat, refData |-> NoRef, turnId |-> NoTurn]>>
             ELSE <<>>)
       \o NewItems(Tail(segs), ref, n + 1, t + 1)

\* The turns addTurn appends for the segments; crypto.randomUUID() is the
\* next unused number.
RECURSIVE NewTurns(_, _)
NewTurns(segs, t) ==
  IF segs = <<>> THEN <<>>
  ELSE <<[id |-> t + 1, text |-> TextToSend(Head(segs)), sourceText |-> Head(segs),
          speaker |-> TargetSpeaker(Head(segs))]>>
       \o NewTurns(Tail(segs), t + 1)

InSeq(x, sq) == \E n \in 1..Len(sq) : sq[n] = x

\* A processNewData that compares and records the id before it looks at the
\* text.
processNewDataIdFirst(k, wait) ==
  LET data == SnapshotTable[k]
      source == data.full_transcript_text
      segments == segmentText(source)
      items == NewItems(segments, k, paragraphCount, Len(turns))
  IN  /\ lastDelivered' = k
      /\ IF lastProcessedId = data.id
           THEN UNCHANGED <<lastProcessedId, paragraphCount, queue, abortedItem,
                            isProcessing, currentTurnId,
                            currentTranslationBuffer, loops, due, turns,
                            segmented, seen, enqueued, dispatched>>
         ELSE IF source = <<>>
           THEN /\ lastProcessedId' = data.id
                /\ UNCHANGED <<paragraphCount, queue, abortedItem,
                               isProcessing, currentTurnId,
                               currentTranslationBuffer, loops, due, turns,
                               segmented, seen, enqueued, dispatched>>
           ELSE /\ lastProcessedId' = data.id
                /\ segmented' = Append(segmented, k)
                /\ seen' = IF InSeq(data.id, seen) THEN seen
                                                   ELSE Append(seen, data.id)
                /\ IF Len(segments) > 0
                     THEN /\ turns' = turns \o NewTurns(segments, Len(turns))
                          /\ paragraphCount' = paragraphCount + Len(segments)
                          /\ enqueued' = enqueued \o items
                          /\ processQueueLoop(queue \o items, wait)
                     ELSE UNCHANGED <<paragraphCount, queue, abortedItem,
                                      isProcessing, currentTurnId,
                                      currentTranslationBuffer, loops, due,
                                      turns, enqueued, dispatched>>

\* processNewData(data), data being row k; `wait` is what workerWait does at
\* the time of the call.
processNewData(k, wait) ==
  LET data == SnapshotTable[k]
      source == data.full_transcript_text
      segments == segmentText(source)
      items == NewItems(segments, k, paragraphCount, Len(turns))
  IN  /\ lastDelivered' = k
      /\ IF source = <<>>
           THEN UNCHANGED <<lastProcessedId, paragraphCount, queue, abortedItem,
                            isProcessing, currentTurnId,
                            currentTranslationBuffer, loops, due, turns,
                            segmented, seen, enqueued, dispatched>>
         ELSE IF lastProcessedId = data.id
           THEN /\ seen' = IF InSeq(data.id, seen) THEN seen
                                                   ELSE Append(seen, data.id)
                /\ UNCHANGED <<lastProcessedId, paragraphCount, queue,
                               abortedItem, isProcessing, currentTurnId,
                               currentTranslationBuffer, loops, due, turns,
                               segmented, enqueued, dispatched>>
           ELSE /\ lastProcessedId' = data.id
                /\ segmented' = Append(segmented, k)
                /\ seen' = IF InSeq(data.id, seen) THEN seen
                                                   ELSE Append(seen, data.id)
                /\ IF Len(segments) > 0
                     THEN /\ turns' = turns \o NewTurns(segments, Len(turns))
                          /\ paragraphCount' = paragraphCount + Len(segments)
                          /\ enqueued' = enqueued \o items
                          /\ processQueueLoop(queue \o items, wait)
                     ELSE UNCHANGED <<paragraphCount, queue, abortedItem,
                                      isProcessing, currentTurnId,
                                      currentTranslationBuffer, loops, due,
                                      turns, enqueued, dispatched>>

\* The realtime subscription delivers a change of row k; no more than
\* `most` rows are segmented in a run.
PushNotification(k, most) ==
  /\ connected
  /\ Len(segmented) < most
  /\ processNewData(k, workerWait)
  /\ UNCHANGED <<connected, clientStatus, voiceStyle, failed, polled,
                 connecting, tools, called, speakerStatus,
                 worker, pendingFetch, endOfQueueTime, duration>>

\* The worker's 5 s heartbeat: fetchLatest is called.
Tick ==
  /\ worker
  /\ pendingFetch < MaxFetch
  /\ pendingFetch' = pendingFetch + 1
  /\ UNCHANGED <<connected, clientStatus, voiceStyle, failed, polled,
                 connecting, tools, called, speakerStatus,
                 worker, lastProcessedId, paragraphCount, queue, abortedItem,
                 isProcessing, currentTurnId, currentTranslationBuffer, loops,
                 endOfQueueTime, duration, due, turns, segmented,
                 lastDelivered, seen, enqueued, dispatched>>

\* A fetchLatest gets its response: the newest row at the time of the query.
FetchData(k, most) ==
  /\ pendingFetch > 0
  /\ Len(segmented) < most
  /\ pendingFetch' = pendingFetch - 1
  /\ processNewData(k, workerWait)
  /\ UNCHANGED <<connected, clientStatus, voiceStyle, failed, polled,
                 connecting, tools, called, speakerStatus,
                 worker, endOfQueueTime, duration>>

\* A failed fetchLatest that also stops the heartbeat.
FetchFailedStops ==
  /\ pendingFetch > 0
  /\ failed < MaxFailed
  /\ pendingFetch' = pendingFetch - 1
  /\ failed' = failed + 1
  /\ worker' = FALSE
  /\ UNCHANGED <<connected, clientStatus, voiceStyle, polled,
                 connecting, tools, called, speakerStatus,
                 lastProcessedId, paragraphCount, queue, abortedItem,
                 isProcessing, currentTurnId, currentTranslationBuffer, loops,
                 endOfQueueTime, duration, due, turns, segmented,
                 lastDelivered, seen, enqueued, dispatched>>

\* A fetchLatest ends with an error result, an exception or no row.
FetchFailed ==
  /\ pendingFetch > 0
  /\ failed < MaxFailed
  /\ pendingFetch' = pendingFetch - 1
  /\ failed' = failed + 1
  /\ UNCHANGED <<connected, clientStatus, voiceStyle, polled,
                 connecting, tools, called, speakerStatus,
                 worker, lastProcessedId, paragraphCount, queue, abortedItem,
                 isProcessing, currentTurnId, currentTranslationBuffer, loops,
                 endOfQueueTime, duration, due, turns, segmented,
                 lastDelivered, seen, enqueued, dispatched>>

\* ------------------------------------------------------------ the effect
\* The data effect runs with connected = TRUE (the run before it, with
\* connected = FALSE, left no cleanup): the flag is reset, a non-empty queue
\* is resumed before the worker exists, then the worker is created, the
\* subscription is made and fetchLatest is called.
Connect ==
  /\ ~connected
  /\ connected' = TRUE
  /\ IF queue # <<>>
       THEN /\ FreeSlots # {}
            /\ RunLoop(FreeSlot, queue, currentTurnId, workerWait, TRUE)
       ELSE /\ isProcessing' = FALSE
            /\ UNCHANGED <<queue, abortedItem, currentTurnId,
                           currentTranslationBuffer, loops, due, dispatched>>
  /\ worker' = TRUE
  /\ pendingFetch' = IF pendingFetch < MaxFetch THEN pendingFetch + 1 ELSE pendingFetch
  /\ UNCHANGED <<clientStatus, voiceStyle, failed, polled,
                 connecting, tools, called, speakerStatus,
                 lastProcessedId, paragraphCount, endOfQueueTime, duration,
                 turns, segmented, lastDelivered, seen, enqueued>>

\* worker.terminate(): a wait the worker was timing is never completed.
Terminated(l) == IF l.wait = "worker" THEN [l EXCEPT !.wait = "terminated"] ELSE l

\* connected turns FALSE: the cleanup of the last run terminates the worker
\* and removes the subscription, and the new run resets the flag and returns.
Disconnect ==
  /\ connected
  /\ connected' = FALSE
  /\ worker' = FALSE
  /\ loops' = [i \in 1..MaxLoops |-> Terminated(loops[i])]
  /\ isProcessing' = FALSE
  /\ UNCHANGED <<clientStatus, voiceStyle, failed, polled,
                 connecting, tools, called, speakerStatus,
                 pendingFetch, lastProcessedId, paragraphCount, queue,
                 abortedItem, currentTurnId, currentTranslationBuffer,
                 endOfQueueTime, duration, due, turns, segmented,
                 lastDelivered, seen, enqueued, dispatched>>

\* ------------------------------------------------------- the environment
\* The main client's status changes.
ClientStatus(s) ==
  /\ clientStatus # s
  /\ clientStatus' = s
  /\ UNCHANGED <<connected, voiceStyle, failed, polled,
                 connecting, tools, called, speakerStatus, worker,
                 pendingFetch, lastProcessedId, paragraphCount, queue,
                 abortedItem, isProcessing, currentTurnId,
                 currentTranslationBuffer, loops, endOfQueueTime, duration,
                 due, turns, segmented, lastDelivered, seen, enqueued,
                 dispatched>>

\* The status of speaker client c changes: connect() opens the speaker
\* clients after the main client has connected; a socket closes at any time.
SpeakerStatus(c, s) ==
  /\ speakerStatus[c] # s
  /\ s = "connected" => clientStatus = "connected"
  /\ speakerStatus' = [speakerStatus EXCEPT ![c] = s]
  /\ UNCHANGED <<connected, clientStatus, voiceStyle, failed, polled,
                 connecting, tools, called, worker,
                 pendingFetch, lastProcessedId, paragraphCount, queue,
                 abortedItem, isProcessing, currentTurnId,
                 currentTranslationBuffer, loops, endOfQueueTime, duration,
                 due, turns, segmented, lastDelivered, seen, enqueued,
                 dispatched>>

\* The status of the client that serves channel c.
ChannelStatus(c) == IF c = "default" THEN clientStatus ELSE speakerStatus[c]

\* ------------------------------------------------------------ connect()
\* The status of channel c set to s.
WithStatus(c, s) ==
  /\ clientStatus' = IF c = "default" THEN s ELSE clientStatus
  /\ speakerStatus' = IF c = "default" THEN speakerStatus
                                        ELSE [speakerStatus EXCEPT ![c] = s]

\* Call j of connect(): the five clients are disconnected, and the call
\* goes on to await the connection of the main client.
connect(j) ==
  /\ connecting[j].pc = 0
  /\ clientStatus' = "disconnected"
  /\ speakerStatus' = [c \in Speakers \ {"default"} |-> "disconnected"]
  /\ connecting' = [connecting EXCEPT ![j] =
        [pc |-> 1,
         attempts |-> <<[channel |-> ConnectOrder[1], result |-> "pending"]>>,
         propagated |-> FALSE]]
  /\ UNCHANGED <<connected, voiceStyle, failed, polled, tools, called, worker,
                 pendingFetch,
                 lastProcessedId, paragraphCount, queue, abortedItem,
                 isProcessing, currentTurnId, currentTranslationBuffer,
                 loops, endOfQueueTime, duration, due, turns, segmented,
                 lastDelivered, seen, enqueued, dispatched>>

\* A connect() that goes on to the next client past a rejected attempt.
connectSettledGoesOn(j, result) ==
  LET call == connecting[j]
      k == call.pc
      settled == [call.attempts EXCEPT ![k].result = result]
  IN  /\ k > 0
      /\ IF result = "success" THEN WithStatus(ConnectOrder[k], "connected")
                                ELSE UNCHANGED <<clientStatus, speakerStatus>>
      /\ connecting' = [connecting EXCEPT ![j] =
            IF k < Len(ConnectOrder)
              THEN [call EXCEPT
                      !.pc = k + 1,
                      !.attempts = Append(settled,
                        [channel |-> ConnectOrder[k + 1], result |-> "pending"])]
              ELSE [call EXCEPT !.pc = 0, !.attempts = settled]]
      /\ UNCHANGED <<connected, voiceStyle, failed, polled, tools, called, worker,
                 pendingFetch,
                 lastProcessedId, paragraphCount, queue, abortedItem,
                 isProcessing, currentTurnId, currentTranslationBuffer,
                 loops, endOfQueueTime, duration, due, turns, segmented,
                 lastDelivered, seen, enqueued, dispatched>>

\* The attempt call j awaits comes to `result`.  A result, success or
\* failure, is dropped and the next client is awaited; a rejection goes to
\* the catch, which logs it and ends the call.
connectSettled(j, result) ==
  LET call == connecting[j]
      k == call.pc
      settled == [call.attempts EXCEPT ![k].result = result]
  IN  /\ k > 0
      /\ IF result = "success" THEN WithStatus(ConnectOrder[k], "connected")
                                ELSE UNCHANGED <<clientStatus, speakerStatus>>
      /\ connecting' = [connecting EXCEPT ![j] =
            IF result # "thrown" /\ k < Len(ConnectOrder)
              THEN [call EXCEPT
                      !.pc = k + 1,
                      !.attempts = Append(settled,
                        [channel |-> ConnectOrder[k + 1], result |-> "pending"])]
              ELSE [call EXCEPT !.pc = 0, !.attempts = settled]]
      /\ UNCHANGED <<connected, voiceStyle, failed, polled, tools, called, worker,
                 pendingFetch,
                 lastProcessedId, paragraphCount, queue, abortedItem,
                 isProcessing, currentTurnId, currentTranslationBuffer,
                 loops, endOfQueueTime, duration, due, turns, segmented,
                 lastDelivered, seen, enqueued, dispatched>>

\* setVoiceStyle and the effect that copies the setting into voiceStyleRef.
setVoiceStyle(style) ==
  /\ voiceStyle # style
  /\ voiceStyle' = style
  /\ UNCHANGED <<connected, clientStatus, failed, polled,
                 connecting, tools, called, speakerStatus, worker,
                 pendingFetch, lastProcessedId, paragraphCount, queue,
                 abortedItem, isProcessing, currentTurnId,
                 currentTranslationBuffer, loops, endOfQueueTime, duration,
                 due, turns, segmented, lastDelivered, seen, enqueued,
                 dispatched>>

\* Channel c returns the audio of its last send: onAudio queues it on the
\* channel's own streamer.
onAudio(c) ==
  /\ "audio" \in due[c]
  /\ due' = [due EXCEPT ![c] = @ \ {"audio"}]
  /\ endOfQueueTime' = [endOfQueueTime EXCEPT ![c] = @ + AudioLen]
  /\ duration' = [duration EXCEPT ![c] = AudioLen]
  /\ UNCHANGED <<connected, clientStatus, voiceStyle, failed, polled,
                 connecting, tools, called, speakerStatus,
                 worker, pendingFetch, lastProcessedId, paragraphCount, queue,
                 abortedItem, isProcessing, currentTurnId,
                 currentTranslationBuffer, loops, turns, segmented,
                 lastDelivered, seen, enqueued, dispatched>>

\* The streamer of channel c plays its buffered audio out.
Playback(c) ==
  /\ duration[c] > 0
  /\ duration' = [duration EXCEPT ![c] = 0]
  /\ UNCHANGED <<connected, clientStatus, voiceStyle, failed, polled,
                 connecting, tools, called, speakerStatus,
                 worker, pendingFetch, lastProcessedId, paragraphCount, queue,
                 abortedItem, isProcessing, currentTurnId,
                 currentTranslationBuffer, loops, endOfQueueTime, due, turns,
                 segmented, lastDelivered, seen, enqueued, dispatched>>

\* stopAllStreamers: every streamer drops the audio it has buffered.
stopAllStreamers == [d \in Speakers |-> 0]

\* An interrupted event that stops the streamers whatever channel emits it.
interruptedAnyChannel(c) ==
  /\ due[c] # {}
  /\ due' = [due EXCEPT ![c] = {}]
  /\ duration' = stopAllStreamers
  /\ UNCHANGED <<connected, clientStatus, voiceStyle, failed, polled,
                 connecting, tools, called, speakerStatus,
                 worker, pendingFetch, lastProcessedId, paragraphCount, queue,
                 abortedItem, isProcessing, currentTurnId,
                 currentTranslationBuffer, loops, endOfQueueTime, turns,
                 segmented, lastDelivered, seen, enqueued, dispatched>>

\* Channel c emits `interrupted` while it owes the answer to its last send,
\* and sends nothing more of that answer; the handler stopAllStreamers is
\* bound to the event of the main client and of no other.
interrupted(c) ==
  /\ due[c] # {}
  /\ due' = [due EXCEPT ![c] = {}]
  /\ duration' = IF c = "default" THEN stopAllStreamers ELSE duration
  /\ UNCHANGED <<connected, clientStatus, voiceStyle, failed, polled,
                 connecting, tools, called, speakerStatus,
                 worker, pendingFetch, lastProcessedId, paragraphCount, queue,
                 abortedItem, isProcessing, currentTurnId,
                 currentTranslationBuffer, loops, endOfQueueTime, turns,
                 segmented, lastDelivered, seen, enqueued, dispatched>>

\* The output listener: channel c streams a chunk of transcript text.
outputTranscription(c, chunk) ==
  /\ "text" \in due[c]
  /\ Len(currentTranslationBuffer) < MaxBuf
  /\ due' = [due EXCEPT ![c] = @ \ {"text"}]
  /\ currentTranslationBuffer' = currentTranslationBuffer \o chunk
  /\ UNCHANGED <<connected, clientStatus, voiceStyle, failed, polled,
                 connecting, tools, called, speakerStatus,
                 worker, pendingFetch, lastProcessedId, paragraphCount, queue,
                 abortedItem, isProcessing, currentTurnId, loops,
                 endOfQueueTime, duration, turns, segmented, lastDelivered,
                 seen, enqueued, dispatched>>

Chunks == {<<"sp">>, <<"w">>}

\* Reconnects and concurrent loop instances: the channels answer with text
\* but with no audio, and the poll responses stay outstanding.
Next ==
  \/ \E k \in Rows : PushNotification(k, MaxAccepted)
  \/ Connect
  \/ Disconnect
  \/ \E s \in {"connected", "disconnected"} : ClientStatus(s)
  \/ \E c \in Speakers, chunk \in Chunks : outputTranscription(c, chunk)
  \/ \E i \in 1..MaxLoops, periods \in 1..ArrivalMaxPolls : ArrivalWake(i, periods)
  \/ \E i \in 1..MaxLoops : InsertDone(i)

Spec == Init /\ [][Next]_vars

\* Spec over a single accepted snapshot.
NextReconnect ==
  \/ \E k \in Rows : PushNotification(k, MaxAcceptedReconnect)
  \/ Connect
  \/ Disconnect
  \/ \E s \in {"connected", "disconnected"} : ClientStatus(s)
  \/ \E c \in Speakers, chunk \in Chunks : outputTranscription(c, chunk)
  \/ \E i \in 1..MaxLoops, periods \in 1..ArrivalMaxPolls : ArrivalWake(i, periods)
  \/ \E i \in 1..MaxLoops : InsertDone(i)

SpecReconnect == Init /\ [][NextReconnect]_vars

\* The source is pushed and polled, across reconnects; snapshots share ids.
NextPoll ==
  \/ \E k \in RowsPoll : PushNotification(k, MaxAcceptedPoll)
  \/ \E k \in RowsPoll : FetchData(k, MaxAcceptedPoll)
  \/ FetchFailed
  \/ Tick
  \/ Connect
  \/ Disconnect
  \/ \E s \in {"connected", "disconnected"} : ClientStatus(s)
  \/ \E i \in 1..MaxLoops, periods \in 1..ArrivalMaxPolls : ArrivalWake(i, periods)

SpecPoll == Init /\ [][NextPoll]_vars

\* One session fed by the heartbeat alone: every poll answers with a row or
\* fails.
NextFetch ==
  \/ \E k \in RowsPoll : FetchData(k, MaxAcceptedPoll)
  \/ FetchFailed
  \/ Tick
  \/ Connect
  \/ \E s \in {"connected", "disconnected"} : ClientStatus(s)
  \/ \E i \in 1..MaxLoops, periods \in 1..ArrivalMaxPolls : ArrivalWake(i, periods)

SpecFetch == Init /\ [][NextFetch]_vars

\* One session in which the five clients connect and drop one by one.
NextConnect ==
  \/ \E k \in RowsPlay : PushNotification(k, MaxAcceptedPlay)
  \/ Connect
  \/ \E s \in {"connected", "disconnected"} : ClientStatus(s)
  \/ \E c \in Speakers \ {"default"}, s \in {"connected", "disconnected"} :
       SpeakerStatus(c, s)
  \/ \E i \in 1..MaxLoops, periods \in 1..ArrivalMaxPolls : ArrivalWake(i, periods)

SpecConnect == Init /\ [][NextConnect]_vars

\* One session over lines that are a bare speaker tag, under the natural
\* style, which adds nothing to a text, and under the conversational one.
StylesDrop == {"natural", "conversational"}

NextDrop ==
  \/ \E k \in RowsDrop : PushNotification(k, MaxAcceptedDrop)
  \/ Connect
  \/ \E s \in {"connected", "disconnected"} : ClientStatus(s)
  \/ \E style \in StylesDrop : setVoiceStyle(style)
  \/ \E c \in Speakers, chunk \in Chunks : outputTranscription(c, chunk)
  \/ \E i \in 1..MaxLoops, periods \in 1..ArrivalMaxPolls : ArrivalWake(i, periods)
  \/ \E i \in 1..MaxLoops : InsertDone(i)

SpecDrop == Init /\ [][NextDrop]_vars

\* Snapshots, reconnects and waits alone: no channel answers, so every
\* instance goes from its waits straight on to the next item.
NextOrder ==
  \/ \E k \in Rows : PushNotification(k, MaxAccepted)
  \/ Connect
  \/ Disconnect
  \/ \E s \in {"connected", "disconnected"} : ClientStatus(s)
  \/ \E i \in 1..MaxLoops, periods \in 1..ArrivalMaxPolls : ArrivalWake(i, periods)

SpecOrder == Init /\ [][NextOrder]_vars

\* The clients alone: calls of connect(), and sockets that close.
NextSequence ==
  \/ \E j \in 1..MaxConnectCalls : connect(j)
  \/ \E j \in 1..MaxConnectCalls, result \in ConnectResults : connectSettled(j, result)
  \/ \E s \in {"disconnected"} : ClientStatus(s)
  \/ \E c \in Speakers \ {"default"}, s \in {"disconnected"} : SpeakerStatus(c, s)

SpecSequence == Init /\ [][NextSequence]_vars

\* --------------------------------------------------------- the tools store
\* Tool names: 'new_function' and `new_function_${counter}` as addTool makes
\* them, and a name only a user gives.
ToolNames == {<<"new_function">>, <<"new_function_", 1>>, <<"get_weather">>}

\* The tools a user submits from the editor.
EditedTools ==
  [name : ToolNames, isEnabled : BOOLEAN, description : {"edited"}]

\* state.tools.some(tool => tool.name === name)
SomeTool(ts, name) == \E n \in 1..Len(ts) : ts[n].name = name

\* The while loop of addTool, entered with newToolName and counter.
RECURSIVE NewToolName(_, _, _)
NewToolName(ts, newToolName, counter) ==
  IF SomeTool(ts, newToolName)
    THEN NewToolName(ts, <<"new_function_", counter>>, counter + 1)
    ELSE newToolName

\* A store operation is called: `called` takes note of it.
Call(op, key, value) ==
  /\ called.n < MaxStoreCalls
  /\ called' = [n |-> called.n + 1, op |-> op, key |-> key, value |-> value]

toggleTool(toolName) ==
  /\ Call("toggleTool", toolName, 0)
  /\ tools' = [n \in 1..Len(tools) |->
                 IF tools[n].name = toolName
                   THEN [tools[n] EXCEPT !.isEnabled = ~tools[n].isEnabled]
                   ELSE tools[n]]
  /\ UNCHANGED <<connected, clientStatus, voiceStyle, worker, pendingFetch,
                 lastProcessedId, paragraphCount, queue, isProcessing,
                 currentTurnId, currentTranslationBuffer, loops,
                 endOfQueueTime, duration, due, turns, segmented, seen,
                 enqueued, dispatched, lastDelivered, failed, abortedItem,
                 speakerStatus, polled, connecting>>

addTool ==
  /\ Call("addTool", 0, 0)
  /\ tools' = Append(tools, [name |-> NewToolName(tools, <<"new_function">>, 1),
                             isEnabled |-> TRUE,
                             description |-> ""])
  /\ UNCHANGED <<connected, clientStatus, voiceStyle, worker, pendingFetch,
                 lastProcessedId, paragraphCount, queue, isProcessing,
                 currentTurnId, currentTranslationBuffer, loops,
                 endOfQueueTime, duration, due, turns, segmented, seen,
                 enqueued, dispatched, lastDelivered, failed, abortedItem,
                 speakerStatus, polled, connecting>>

removeTool(toolName) ==
  /\ Call("removeTool", toolName, 0)
  /\ tools' = SelectSeq(tools, LAMBDA tool : tool.name # toolName)
  /\ UNCHANGED <<connected, clientStatus, voiceStyle, worker, pendingFetch,
                 lastProcessedId, paragraphCount, queue, isProcessing,
                 currentTurnId, currentTranslationBuffer, loops,
                 endOfQueueTime, duration, due, turns, segmented, seen,
                 enqueued, dispatched, lastDelivered, failed, abortedItem,
                 speakerStatus, polled, connecting>>

\* An updateTool without the test of the new name.
updateToolUnchecked(oldName, updatedTool) ==
  /\ Call("updateTool", oldName, updatedTool)
  /\ tools' = [n \in 1..Len(tools) |->
                 IF tools[n].name = oldName THEN updatedTool ELSE tools[n]]
  /\ UNCHANGED <<connected, clientStatus, voiceStyle, worker, pendingFetch,
                 lastProcessedId, paragraphCount, queue, isProcessing,
                 currentTurnId, currentTranslationBuffer, loops,
                 endOfQueueTime, duration, due, turns, segmented, seen,
                 enqueued, dispatched, lastDelivered, failed, abortedItem,
                 speakerStatus, polled, connecting>>

updateTool(oldName, updatedTool) ==
  /\ Call("updateTool", oldName, updatedTool)
  /\ IF oldName # updatedTool.name /\ SomeTool(tools, updatedTool.name)
       THEN tools' = tools
       ELSE tools' = [n \in 1..Len(tools) |->
                        IF tools[n].name = oldName THEN updatedTool ELSE tools[n]]
  /\ UNCHANGED <<connected, clientStatus, voiceStyle, worker, pendingFetch,
                 lastProcessedId, paragraphCount, queue, isProcessing,
                 currentTurnId, currentTranslationBuffer, loops,
                 endOfQueueTime, duration, due, turns, segmented, seen,
                 enqueued, dispatched, lastDelivered, failed, abortedItem,
                 speakerStatus, polled, connecting>>

\* The tools store alone, under every sequence of its four operations.
NextTools ==
  \/ addTool
  \/ \E toolName \in ToolNames : toggleTool(toolName)
  \/ \E toolName \in ToolNames : removeTool(toolName)
  \/ \E oldName \in ToolNames, updatedTool \in EditedTools :
       updateTool(oldName, updatedTool)

SpecTools == Init /\ [][NextTools]_vars

\* ----------------------------------------------------------- the log store
\* The turns handed to addTurn: id is optional (NoTurn: the turn has none).
NewTurnsLog == [id : {NoTurn, 1, 2}, text : {"t"}, translation : {""}]

\* The ids updateTurn is called with.
TurnIds == {1, 2, 3}

\* Partial<ConversationTurn>: any of the fields, the id among them, or none.
Updates ==
  { [translation |-> "x"],
    [text |-> "u", translation |-> "x"],
    [id |-> 2],
    [f \in {} |-> 0] }

\* { ...turn, ...update }
Spread(turn, update) ==
  [f \in DOMAIN turn \cup DOMAIN update |->
     IF f \in DOMAIN update THEN update[f] ELSE turn[f]]

\* addTurn stamps the turn with new Date(); the calls made so far are the clock.
addTurn(turn) ==
  /\ Call("addTurn", 0, turn)
  /\ turns' = Append(turns, Spread(turn, [timestamp |-> called.n + 1]))
  /\ UNCHANGED <<connected, clientStatus, voiceStyle, worker, pendingFetch,
                 lastProcessedId, paragraphCount, queue, isProcessing,
                 currentTurnId, currentTranslationBuffer, loops,
                 endOfQueueTime, duration, due, segmented, seen, enqueued,
                 dispatched, lastDelivered, failed, abortedItem,
                 speakerStatus, polled, connecting, tools>>

updateLastTurn(update) ==
  /\ Call("updateLastTurn", 0, update)
  /\ IF Len(turns) = 0
       THEN turns' = turns
       ELSE turns' = [turns EXCEPT ![Len(turns)] = Spread(turns[Len(turns)], update)]
  /\ UNCHANGED <<connected, clientStatus, voiceStyle, worker, pendingFetch,
                 lastProcessedId, paragraphCount, queue, isProcessing,
                 currentTurnId, currentTranslationBuffer, loops,
                 endOfQueueTime, duration, due, segmented, seen, enqueued,
                 dispatched, lastDelivered, failed, abortedItem,
                 speakerStatus, polled, connecting, tools>>

\* An updateTurn that adds the update as a turn when no turn has the id.
updateTurnOrAdd(id, update) ==
  /\ Call("updateTurn", id, update)
  /\ turns' = IF \E n \in 1..Len(turns) : turns[n].id = id
                THEN [n \in 1..Len(turns) |->
                        IF turns[n].id = id THEN Spread(turns[n], update)
                                            ELSE turns[n]]
                ELSE Append(turns, Spread([id |-> id], update))
  /\ UNCHANGED <<connected, clientStatus, voiceStyle, worker, pendingFetch,
                 lastProcessedId, paragraphCount, queue, isProcessing,
                 currentTurnId, currentTranslationBuffer, loops,
                 endOfQueueTime, duration, due, segmented, seen, enqueued,
                 dispatched, lastDelivered, failed, abortedItem,
                 speakerStatus, polled, connecting, tools>>

updateTurn(id, update) ==
  /\ Call("updateTurn", id, update)
  /\ turns' = [n \in 1..Len(turns) |->
                 IF turns[n].id = id THEN Spread(turns[n], update) ELSE turns[n]]
  /\ UNCHANGED <<connected, clientStatus, voiceStyle, worker, pendingFetch,
                 lastProcessedId, paragraphCount, queue, isProcessing,
                 currentTurnId, currentTranslationBuffer, loops,
                 endOfQueueTime, duration, due, segmented, seen, enqueued,
                 dispatched, lastDelivered, failed, abortedItem,
                 speakerStatus, polled, connecting, tools>>

clearTurns ==
  /\ Call("clearTurns", 0, 0)
  /\ turns' = <<>>
  /\ UNCHANGED <<connected, clientStatus, voiceStyle, worker, pendingFetch,
                 lastProcessedId, paragraphCount, queue, isProcessing,
                 currentTurnId, currentTranslationBuffer, loops,
                 endOfQueueTime, duration, due, segmented, seen, enqueued,
                 dispatched, lastDelivered, failed, abortedItem,
                 speakerStatus, polled, connecting, tools>>

\* The log store alone, under every sequence of its four operations.
NextLog ==
  \/ \E turn \in NewTurnsLog : addTurn(turn)
  \/ \E update \in Updates : updateLastTurn(update)
  \/ \E id \in TurnIds, update \in Updates : updateTurn(id, update)
  \/ clearTurns

SpecLog == Init /\ [][NextLog]_vars

\* One session over every shape of source text: blank lines, an empty text,
\* CR LF line ends, lines with spaces around them; no channel answers.
NextSegment ==
  \/ \E k \in RowsSegment : PushNotification(k, MaxAcceptedDrop)
  \/ Connect
  \/ \E s \in {"connected", "disconnected"} : ClientStatus(s)
  \/ \E i \in 1..MaxLoops, periods \in 1..ArrivalMaxPolls : ArrivalWake(i, periods)

SpecSegment == Init /\ [][NextSegment]_vars

\* The style setting changes while items wait in the queue, across
\* reconnects; no channel answers.
NextStyle ==
  \/ \E k \in Rows : PushNotification(k, MaxAcceptedReconnect)
  \/ Connect
  \/ Disconnect
  \/ \E s \in {"connected", "disconnected"} : ClientStatus(s)
  \/ \E style \in StylesDrop : setVoiceStyle(style)
  \/ \E i \in 1..MaxLoops, periods \in 1..ArrivalMaxPolls : ArrivalWake(i, periods)

SpecStyle == Init /\ [][NextStyle]_vars

\* One session in which the channels answer with audio, or break off with
\* `interrupted`.
NextInterrupt ==
  \/ \E k \in RowsPlay : PushNotification(k, MaxAcceptedPlay)
  \/ Connect
  \/ \E s \in {"connected", "disconnected"} : ClientStatus(s)
  \/ \E c \in Speakers : onAudio(c)
  \/ \E c \in Speakers : Playback(c)
  \/ \E c \in Speakers : interrupted(c)
  \/ \E i \in 1..MaxLoops, periods \in 1..ArrivalMaxPolls : ArrivalWake(i, periods)
  \/ \E i \in 1..MaxLoops, periods \in 1..DrainMaxPolls : DrainWake(i, periods)

SpecInterrupt == Init /\ [][NextInterrupt]_vars

\* One session in which the channels answer with a word of text and with no
\* audio: every real item that gets its answer in time has a record to insert.
Words == {<<"w">>}

NextCommit ==
  \/ \E k \in RowsPlay : PushNotification(k, MaxAcceptedPlay)
  \/ Connect
  \/ \E s \in {"connected", "disconnected"} : ClientStatus(s)
  \/ \E c \in Speakers, chunk \in Words : outputTranscription(c, chunk)
  \/ \E i \in 1..MaxLoops, periods \in 1..ArrivalMaxPolls : ArrivalWake(i, periods)
  \/ \E i \in 1..MaxLoops : InsertDone(i)

SpecCommit == Init /\ [][NextCommit]_vars

\* One session in which the client stays connected and no channel answers:
\* every text and every style.
NextText ==
  \/ \E k \in RowsText : PushNotification(k, MaxAcceptedText)
  \/ Connect
  \/ \E s \in {"connected"} : ClientStatus(s)
  \/ \E style \in Styles : setVoiceStyle(style)
  \/ \E i \in 1..MaxLoops, periods \in 1..ArrivalMaxPolls : ArrivalWake(i, periods)

SpecText == Init /\ [][NextText]_vars

\* One session in which the channels answer with audio and text.
NextPlay ==
  \/ \E k \in RowsPlay : PushNotification(k, MaxAcceptedPlay)
  \/ Connect
  \/ \E s \in {"connected", "disconnected"} : ClientStatus(s)
  \/ \E c \in Speakers : onAudio(c)
  \/ \E c \in Speakers : Playback(c)
  \/ \E c \in Speakers, chunk \in Chunks : outputTranscription(c, chunk)
  \/ \E i \in 1..MaxLoops, periods \in 1..ArrivalMaxPolls : ArrivalWake(i, periods)
  \/ \E i \in 1..MaxLoops, periods \in 1..DrainMaxPolls : DrainWake(i, periods)
  \/ \E i \in 1..MaxLoops : InsertDone(i)

SpecPlay == Init /\ [][NextPlay]_vars

\* ------------------------------------------------------------ properties
InFlight(i) == loops[i].pc \in {"arrival", "drain"}
IsReal(item) == item.refData # NoRef
NonBlank(s) == \E n \in 1..Len(s) : s[n] \notin Whitespace

\* The ids of the rows that were segmented, in the order of segmentation.
SegmentedIds == [n \in 1..Len(segmented) |-> SnapshotTable[segmented[n]].id]

\* C1: whatever the deliveries, pushed or polled, repeated or out of order,
\* each distinct snapshot id is segmented exactly once, and the ids are
\* segmented in the order in which they were first delivered.
C1_EachIdSegmentedOnce == SegmentedIds = seen

\* C2: no item is sent while an item sent before it is still in its arrival
\* wait or its drain wait, a wait during which the effect re-ran included.
C2_SingleFlight == Cardinality({i \in 1..MaxLoops : InFlight(i)}) <= 1

\* C3: at most one instance of processQueueLoop is under way at any moment,
\* whether at a wait or at the insert of its commit step.
C3_OneLoopInstance == Cardinality({i \in 1..MaxLoops : loops[i].pc # "none"}) <= 1

\* The accepted segments in order: those of each segmented row, row by row.
RECURSIVE AcceptedSegments(_)
AcceptedSegments(rows) ==
  IF rows = <<>> THEN <<>>
  ELSE LET k == rows[Len(rows)]
           segs == segmentText(SnapshotTable[k].full_transcript_text)
       IN  AcceptedSegments(SubSeq(rows, 1, Len(rows) - 1))
             \o [n \in 1..Len(segs) |-> [refData |-> k, text |-> segs[n]]]

\* C4: the real segments are dispatched in the order in which they were
\* accepted: the dispatched sequence is a subsequence of the accepted one,
\* paragraph order within a snapshot included.
C4_DispatchOrder ==
  LET accepted == AcceptedSegments(segmented)
  IN  \A n \in 1..Len(dispatched) :
        /\ dispatched[n].turnId \in 1..Len(accepted)
        /\ accepted[dispatched[n].turnId] =
             [refData |-> dispatched[n].refData, text |-> dispatched[n].text]
        /\ \A m \in 1..(n - 1) : dispatched[m].turnId < dispatched[n].turnId

\* Three segments of two snapshots were dispatched while two instances of
\* the loop were under way.
C4_Witness ==
  /\ Len(dispatched) = 3
  /\ dispatched[1].refData # dispatched[3].refData
  /\ Cardinality({i \in 1..MaxLoops : InFlight(i)}) = 2

\* C5: a dispatched item never stalls in a wait: the wait an instance is
\* suspended in can always still complete, so the commit step is reached.
C5_NoStalledWait == \A i \in 1..MaxLoops : InFlight(i) => Resumable(i)

\* C7: a real dispatched segment for which transcript text was captured is
\* on its way to its one record: its instance can still reach the commit step.
C7_CapturedTextCommitted ==
  \A i \in 1..MaxLoops :
    (InFlight(i) /\ IsReal(loops[i].item) /\ NonBlank(currentTranslationBuffer))
      => Resumable(i)

\* Instance i passes its commit step: it leaves the wait it was suspended in
\* for the insert, for the next item or for its return.
CommitStep(i) ==
  /\ InFlight(i)
  /\ loops'[i] # loops[i]
  /\ \/ loops'[i].pc \in {"insert", "none"}
     \/ Len(queue') < Len(queue)

\* C6: at the commit step a record is inserted if and only if the item has a
\* source record and the buffer is non-empty once trimmed; the filler, which
\* has no source record, never produces a record whatever text arrived.
C6_CommitGating ==
  /\ [](\A i \in 1..MaxLoops : loops[i].pc = "insert" => IsReal(loops[i].item))
  /\ [][\A i \in 1..MaxLoops :
          CommitStep(i) =>
            (loops'[i].pc = "insert"
               <=> (IsReal(loops[i].item) /\ NonBlank(currentTranslationBuffer)))]_vars

\* The four items of a snapshot of three paragraphs were sent, the filler
\* last, and the loop has returned: the text in the buffer came in after the
\* filler was sent, and its commit step left no insert behind.
C6_Witness ==
  /\ Len(enqueued) = 4
  /\ queue = <<>>
  /\ \A i \in 1..MaxLoops : loops[i].pc = "none"
  /\ NonBlank(currentTranslationBuffer)

\* The number of real items among the first p enqueued.
RealCount(p) == Cardinality({n \in 1..p : IsReal(enqueued[n])})

\* C8: a filler "(clears throat)" with no source record and no turn id is
\* enqueued right after every third real segment, counted across snapshots,
\* and nowhere else; it is sent as it is under every voice style.
C8_FillerEveryThird ==
  /\ \A p \in 1..Len(enqueued) :
       /\ (IsReal(enqueued[p]) /\ RealCount(p) % 3 = 0)
            => (p < Len(enqueued) /\ ~IsReal(enqueued[p + 1]))
       /\ ~IsReal(enqueued[p])
            => /\ p > 1 /\ IsReal(enqueued[p - 1]) /\ RealCount(p - 1) % 3 = 0
               /\ enqueued[p] = [text |-> ClearsThroat, refData |-> NoRef,
                                 turnId |-> NoTurn]
  /\ \A i \in 1..MaxLoops :
       (loops[i].pc # "none" /\ ~IsReal(loops[i].item))
         => loops[i].scriptedText = ClearsThroat

\* The filler that follows the sixth paragraph, the last of three snapshots
\* of two paragraphs each, is in flight, sent under the dramatic style.
C8_Witness ==
  /\ paragraphCount = 6
  /\ Len(segmented) = 3
  /\ queue = <<>>
  /\ \E i \in 1..MaxLoops :
       InFlight(i) /\ ~IsReal(loops[i].item) /\ loops[i].style = "dramatic"

\* The speaker tags and the channel each one selects.
TagLexicon == {"Male 1:", "Male 2:", "Female 1:", "Female 2:"}
TagChannel(raw) ==
  IF raw = <<>> THEN "default"
  ELSE CASE Head(raw) = "Male 1:" -> "Male 1"
         [] Head(raw) = "Male 2:" -> "Male 2"
         [] Head(raw) = "Female 1:" -> "Female 1"
         [] Head(raw) = "Female 2:" -> "Female 2"
         [] OTHER -> "default"

\* The text T of a segment: the segment less its leading tag, trimmed.
StripTag(raw) ==
  IF raw # <<>> /\ Head(raw) \in TagLexicon THEN Trim(Tail(raw)) ELSE raw

\* The style table: what goes before and after T, a space between the parts.
StyleTable ==
  [natural |-> [prefix |-> <<>>, suffix |-> <<>>],
   conversational |-> [prefix |-> <<"(casually)", "sp">>, suffix |-> <<>>],
   formal |-> [prefix |-> <<"(professionally)", "sp">>, suffix |-> <<>>],
   enthusiastic |-> [prefix |-> <<"(excitedly)", "sp">>, suffix |-> <<>>],
   breathy |-> [prefix |-> <<"(soft inhale)", "sp">>,
                suffix |-> <<"sp", "...", "sp", "(pause)">>],
   dramatic |-> [prefix |-> <<"(slowly)", "sp">>,
                 suffix |-> <<"sp", "...", "sp", "(long pause)">>]]

Wrap(style, t) == StyleTable[style].prefix \o t \o StyleTable[style].suffix

\* C9 as stated: every real segment is sent as the style table wraps its
\* text T under the style in force at dispatch.
C9_StyleTable ==
  \A i \in 1..MaxLoops :
    (loops[i].pc # "none" /\ IsReal(loops[i].item))
      => loops[i].scriptedText = Wrap(loops[i].style, StripTag(loops[i].item.text))

\* C9: every real segment whose text T is not the literal "(clears throat)"
\* is sent as the style table wraps T under the style in force at dispatch; a
\* real segment whose T is that literal is sent as it is under every style.
C9_StyleTableButLiteral ==
  \A i \in 1..MaxLoops :
    (loops[i].pc # "none" /\ IsReal(loops[i].item))
      => LET t == StripTag(loops[i].item.text)
         IN  loops[i].scriptedText =
               IF t = ClearsThroat THEN t ELSE Wrap(loops[i].style, t)

\* A tagged segment is in flight, sent under the dramatic style with the
\* direction before it and the pause after it.
C9_Witness ==
  \E i \in 1..MaxLoops :
    /\ InFlight(i)
    /\ loops[i].item.text = <<"Female 1:", "sp", "sp", "a">>
    /\ loops[i].scriptedText =
         <<"(slowly)", "sp", "a", "sp", "...", "sp", "(long pause)">>

\* The items that have left the queue so far.
RemovedCount == Len(enqueued) - Len(queue)

\* Instance i sends the item it now holds.
SendStep(i) ==
  /\ loops'[i].pc = "arrival"
  /\ loops'[i] # loops[i]
  /\ RemovedCount' > RemovedCount

\* C10: a segment goes to the one channel its leading tag selects, the
\* default channel when it has none, and the tag is not part of the text
\* sent; the arrival wait and the drain wait of the item read the playback
\* state of that channel and of no other.
C10_OneChannel ==
  /\ [](\A i \in 1..MaxLoops :
          loops[i].pc # "none" =>
            LET c == TagChannel(loops[i].item.text)
            IN  /\ loops[i].targetSpeaker = c
                /\ \A n \in 1..Len(loops[i].scriptedText) :
                     loops[i].scriptedText[n] \notin TagLexicon
                /\ loops[i].audioArrived
                     => endOfQueueTime[c] > loops[i].preSendEnd + ArrivalSlack)
  /\ [][\A i \in 1..MaxLoops :
          LET c == TagChannel(loops'[i].item.text)
          IN  /\ SendStep(i) =>
                   /\ due'[c] = {"audio", "text"}
                   /\ \A d \in Speakers \ {c} : due'[d] = due[d]
                   /\ loops'[i].preSendEnd = endOfQueueTime[c]
              /\ (InFlight(i) /\ loops'[i].pc = "drain" /\ loops'[i] # loops[i])
                   => duration[c] > DrainThreshold]_vars

\* A segment tagged for Female 1 is in its drain wait: the audio the channel
\* sent back was seen to arrive, and the default channel has played before.
C10_Witness ==
  \E i \in 1..MaxLoops :
    /\ loops[i].pc = "drain"
    /\ loops[i].targetSpeaker = "Female 1"
    /\ loops[i].audioArrived
    /\ endOfQueueTime["default"] > 0

\* The item is one the style switch turns into a blank text under `style`.
Blank(item, style) == ~NonBlank(Wrap(style, StripTag(item.text)))

IsPrefix(a, b) == Len(a) <= Len(b) /\ SubSeq(b, 1, Len(a)) = a

\* C11 as stated: the item at the head of the queue when the loop found the
\* client not connected is lost, and is never sent afterwards.
C11_AbortedItemLost ==
  [][abortedItem # NoItem =>
       ~(\E i \in 1..MaxLoops : SendStep(i) /\ loops'[i].item = abortedItem)]_vars

\* C11: when the loop finds the client not connected at the top of an
\* iteration it returns with the flag cleared and removes nothing: the
\* pending item stays at the head of the queue, and the next run of the loop
\* that finds the client connected takes it first, sending it unless its
\* text is blank.  No item leaves the queue while the client is not connected.
C11_AbortKeepsItem ==
  /\ [][clientStatus # "connected" => IsPrefix(queue, queue')]_vars
  /\ [](abortedItem # NoItem =>
          /\ ~isProcessing
          /\ queue # <<>> /\ Head(queue) = abortedItem)
  /\ [][(abortedItem # NoItem /\ \E i \in 1..MaxLoops : SendStep(i)) =>
          \E i \in 1..MaxLoops :
            /\ SendStep(i)
            /\ loops'[i].item = abortedItem \/ Blank(abortedItem, voiceStyle)]_vars

\* The loop has sent the first paragraph and aborted on the second, which
\* is still at the head of the queue.
C11_Witness ==
  /\ abortedItem # NoItem
  /\ abortedItem.turnId = 2
  /\ Len(dispatched) = 1
  /\ \A i \in 1..MaxLoops : loops[i].pc = "none"

\* C12: every new or changed source text delivered is segmented exactly
\* once, a delivery that carries the id of the last accepted snapshot with a
\* different text included: the row delivered last is among the segmented
\* ones, and no row is segmented twice.
C12_ChangedTextSegmented ==
  /\ (lastDelivered # NoRef
        /\ SnapshotTable[lastDelivered].full_transcript_text # <<>>)
       => InSeq(lastDelivered, segmented)
  /\ \A m, n \in 1..Len(segmented) : m # n => segmented[m] # segmented[n]

\* C13: every promise workerWait returns is resolved in the end, also when
\* the worker is terminated while the wait is outstanding: no wait is left
\* with nothing to complete it.
C13_WaitResolves == \A i \in 1..MaxLoops : loops[i].wait # "terminated"

\* A fetchLatest response arrives with row lastDelivered'.
FetchStep == pendingFetch' < pendingFetch /\ failed' = failed

\* C14: a failed poll leaves the last processed id and the queue as they
\* were and does not stop the heartbeat: the worker lives on, its next tick
\* issues a fetch, and a snapshot a later fetch returns is accepted by the
\* rule of processNewData as if no poll had failed.
C14_FailedPollHarmless ==
  /\ [][failed' # failed =>
          /\ lastProcessedId' = lastProcessedId
          /\ queue' = queue /\ segmented' = segmented
          /\ worker' = worker]_vars
  /\ []((failed > 0 /\ worker /\ pendingFetch < MaxFetch) => ENABLED Tick)
  /\ [][(failed > 0 /\ FetchStep) =>
          LET data == SnapshotTable[lastDelivered']
          IN  IF data.full_transcript_text # <<>> /\ data.id # lastProcessedId
                THEN /\ lastProcessedId' = data.id
                     /\ segmented' = Append(segmented, lastDelivered')
                ELSE /\ lastProcessedId' = lastProcessedId
                     /\ segmented' = segmented]_vars

\* Two polls have failed and, the worker still alive, two snapshots were
\* accepted, the second of them polled.
C14_Witness ==
  /\ failed = 2
  /\ worker
  /\ segmented = <<1, 2>>
  /\ pendingFetch = 0

\* C15: no segment is sent to a channel whose client is not connected at the
\* moment of the send: the client that serves the channel the speaker tag
\* selects is connected whenever the loop sends.
C15_OwnerConnected ==
  [][\A i \in 1..MaxLoops :
       SendStep(i) => ChannelStatus(TagChannel(loops'[i].item.text)) = "connected"]_vars

\* C16: the processing flag goes from set to clear only when the queue is
\* empty or the client was found not connected at the top of an iteration;
\* nothing else, a re-run of the effect included, clears it while items
\* remain queued.
C16_FlagClearedOnlyByLoop ==
  [][(isProcessing /\ ~isProcessing') =>
       (queue' = <<>> \/ clientStatus # "connected")]_vars

\* processNewData accepts segments and calls processQueueLoop with the flag set.
ReentrantCall ==
  /\ isProcessing
  /\ segmented' # segmented
  /\ Len(enqueued') > Len(enqueued)

\* C17: a call of processQueueLoop made while the processing flag is set
\* returns at once: the queue stays as the caller's pushes left it, the turn
\* context, the translation buffer and the flag keep their values, and
\* nothing is sent.
C17_ReentrantNoOp ==
  [][ReentrantCall =>
       /\ queue' = queue \o SubSeq(enqueued', Len(enqueued) + 1, Len(enqueued'))
       /\ UNCHANGED <<currentTurnId, currentTranslationBuffer, isProcessing,
                      loops, due, dispatched>>]_vars

\* The first paragraph of the first snapshot is in flight, the flag set, and
\* everything enqueued since, a second snapshot included, waits in the queue.
C17_Witness ==
  /\ isProcessing
  /\ Len(segmented) = 2
  /\ Len(dispatched) = 1
  /\ \E i \in 1..MaxLoops : InFlight(i) /\ loops[i].item.turnId = 1
  /\ Len(enqueued) >= 4
  /\ queue = SubSeq(enqueued, 2, Len(enqueued))

\* C18: at every suspension point the queue holds exactly the accepted items
\* that were neither sent nor dropped, in acceptance order: an item leaves
\* the head of the queue in the step that sends it, so no dispatched item is
\* still queued, and a real item that has left was sent or had a blank text.
C18_QueueIsRest ==
  /\ RemovedCount >= 0
  /\ queue = SubSeq(enqueued, RemovedCount + 1, Len(enqueued))
  /\ \A n \in 1..RemovedCount :
       IsReal(enqueued[n]) =>
         InSeq(enqueued[n], dispatched) \/ Blank(enqueued[n], "natural")
  /\ \A n \in 1..Len(dispatched) :
       /\ ~InSeq(dispatched[n], queue)
       /\ \E m \in 1..RemovedCount : enqueued[m] = dispatched[n]

\* A real item has left the queue unsent, another was sent and is in
\* flight, and a later snapshot's items wait in the queue.
C18_Witness ==
  /\ \E n \in 1..RemovedCount :
       IsReal(enqueued[n]) /\ ~InSeq(enqueued[n], dispatched)
  /\ \E i \in 1..MaxLoops : InFlight(i) /\ IsReal(loops[i].item)
  /\ Len(queue) >= 2

\* Items leave the queue and nothing is sent: the loop drops blank items and
\* finds the queue empty.
DropOnlyStep ==
  /\ RemovedCount' > RemovedCount
  /\ \A i \in 1..MaxLoops : ~SendStep(i)

\* C19: an item whose styled text is blank leaves the queue with no send and
\* no other change of state: after the drop the translation buffer and the
\* turn context are what they were when the iteration started, the context
\* a commit step had just cleared when the loop came from one.
C19_DropChangesNothing ==
  [][DropOnlyStep =>
       /\ currentTranslationBuffer' = currentTranslationBuffer
       /\ currentTurnId' = IF loops' = loops THEN currentTurnId ELSE NoTurn]_vars

\* C20: whenever no consumer loop is under way the turn context is clear,
\* however the last loop ended: text that arrives then goes to no UI turn.
C20_IdleTurnCleared ==
  (~isProcessing /\ \A i \in 1..MaxLoops : loops[i].pc = "none")
    => currentTurnId = NoTurn

\* Channel c streams a chunk of transcript text into the translation buffer.
TextStep(c) ==
  /\ "text" \in due[c]
  /\ "text" \notin due'[c]
  /\ Len(currentTranslationBuffer') > Len(currentTranslationBuffer)

\* C21: every chunk appended to the translation buffer while an item is the
\* active turn comes from the channel that item was sent to, in answer to
\* that send: text a channel streams for an earlier item, after the waits of
\* that item are over, never lands in the buffer of the active turn.
C21_BufferHoldsOwnText ==
  [][\A c \in Speakers :
       (TextStep(c) /\ currentTurnId # NoTurn) =>
         \E i \in 1..MaxLoops :
           /\ InFlight(i)
           /\ loops[i].item.turnId = currentTurnId
           /\ sendToSpeaker(loops[i].targetSpeaker) = c]_vars

\* C22: a send happens with the translation buffer empty and with the
\* baseline read from the target channel's end-of-queue time in the same
\* step, nothing coming between the reset, the read and the send: text
\* received before an item's dispatch is in no record of that item.
C22_SendFromCleanSlate ==
  [][\A i \in 1..MaxLoops :
       SendStep(i) =>
         /\ currentTranslationBuffer' = <<>>
         /\ endOfQueueTime' = endOfQueueTime
         /\ loops'[i].preSendEnd =
              endOfQueueTime[TagChannel(loops'[i].item.text)]]_vars

\* The third paragraph of a snapshot has just been sent to the default
\* channel, which played the first one: the baseline is the end of that
\* audio, and the text the Female 1 channel streamed for the second
\* paragraph is gone from the buffer.
C22_Witness ==
  \E i \in 1..MaxLoops :
    /\ loops[i].pc = "arrival"
    /\ loops[i].item.turnId = 3
    /\ loops[i].targetSpeaker = "default"
    /\ loops[i].preSendEnd = AudioLen
    /\ "text" \notin due["Female 1"]
    /\ endOfQueueTime["Female 1"] > 0
    /\ currentTranslationBuffer = <<>>

\* Instance i ends the arrival wait of the item it holds.
LeavesArrival(i) ==
  /\ loops[i].pc = "arrival"
  /\ loops'[i] # loops[i]
  /\ ~(loops'[i].pc = "arrival" /\ loops'[i].item = loops[i].item)

\* C23: an item goes through send, arrival wait, drain wait and commit in
\* that order, and its arrival wait ends only at a poll that finds the
\* target channel's end-of-queue time more than 0.1 s past the baseline read
\* before the send, or that finds 15 s gone since the send.
C23_ArrivalBeforeDrain ==
  [][\A i \in 1..MaxLoops :
       /\ (loops'[i].pc = "arrival" /\ loops'[i] # loops[i]
             /\ (loops[i].pc # "arrival" \/ loops'[i].item # loops[i].item))
            => SendStep(i)
       /\ (loops'[i].pc = "drain" /\ loops[i].pc # "drain")
            => (loops[i].pc = "arrival" /\ loops'[i].item = loops[i].item)
       /\ (loops'[i].pc = "insert" /\ loops[i].pc # "insert")
            => (InFlight(i) /\ loops'[i].item = loops[i].item)
       /\ LeavesArrival(i)
            => \/ endOfQueueTime[TagChannel(loops[i].item.text)]
                    > loops[i].preSendEnd + ArrivalSlack
               \/ polled'.arrival >= ArrivalMaxPolls]_vars

\* An instance is in its drain wait after a poll of its arrival wait found
\* the audio of its item queued before the 15 s were over.
C23_Witness ==
  \E i \in 1..MaxLoops :
    /\ loops[i].pc = "drain"
    /\ loops[i].audioArrived
    /\ polled.arrival > 0
    /\ polled.arrival < ArrivalMaxPolls
    /\ endOfQueueTime[loops[i].targetSpeaker] = loops[i].preSendEnd + AudioLen

\* C24: the commit of an item, and with it the send of the next one, comes
\* only at a poll of the drain wait that finds the playback duration
\* buffered on the item's channel at or below 0.5 s, or that finds 60 s gone
\* since the drain wait began, whether the arrival wait saw audio or timed
\* out.
C24_DrainBeforeCommit ==
  [][\A i \in 1..MaxLoops :
       CommitStep(i) =>
         \/ duration[TagChannel(loops[i].item.text)] <= DrainThreshold
         \/ polled'.drain >= DrainMaxPolls]_vars

\* The second item was sent by a poll of the first item's drain wait, made
\* before the 60 s were over, once the audio of the first item had played out.
C24_Witness ==
  \E i \in 1..MaxLoops :
    /\ loops[i].pc = "arrival"
    /\ loops[i].elapsed = 0
    /\ loops[i].item.turnId = 2
    /\ polled.drain > 0
    /\ polled.drain < DrainMaxPolls
    /\ \E c \in Speakers :
         /\ c # loops[i].targetSpeaker
         /\ endOfQueueTime[c] = AudioLen
         /\ duration[c] <= DrainThreshold

\* The insert of instance i settles.
InsertSettles(i) == loops[i].pc = "insert" /\ loops'[i] # loops[i]

\* The place in q of the first item the loop will not drop under the style
\* in force, 0 when it will drop them all.
RECURSIVE FirstSendable(_, _)
FirstSendable(q, n) ==
  IF n > Len(q) THEN 0
  ELSE IF ~Blank(q[n], voiceStyle) THEN n
  ELSE FirstSendable(q, n + 1)

\* C25: when the insert of the commit step settles, with a record or with
\* an error, the loop goes on: the committed item is not queued again and
\* is no longer the active turn, and the next item the loop does not drop
\* is sent, the client being connected, as at any other top of the loop;
\* with nothing left to send the loop returns and clears the flag.
C25_InsertFailureGoesOn ==
  [][\A i \in 1..MaxLoops :
       InsertSettles(i) =>
         LET n == FirstSendable(queue, 1)
         IN  /\ ~InSeq(loops[i].item, queue')
             /\ currentTurnId' # loops[i].item.turnId
             /\ \E m \in 0..Len(queue) :
                  queue' = SubSeq(queue, m + 1, Len(queue))
             /\ (clientStatus = "connected" /\ n > 0)
                  => /\ SendStep(i)
                     /\ loops'[i].item = queue[n]
                     /\ queue' = SubSeq(queue, n + 1, Len(queue))
                     /\ currentTurnId' = queue[n].turnId
                     /\ isProcessing' = isProcessing
             /\ queue = <<>>
                  => /\ loops'[i].pc = "none"
                     /\ currentTurnId' = NoTurn
                     /\ ~isProcessing']_vars

\* The second item of a snapshot has just been sent, on another channel
\* than the first, and the word the first channel streamed for the first
\* item is no longer in the buffer: it was there at the commit of the first
\* item, whose insert has settled.
C25_Witness ==
  \E i \in 1..MaxLoops :
    /\ loops[i].pc = "arrival"
    /\ loops[i].elapsed = 0
    /\ loops[i].item.turnId = 2
    /\ Len(dispatched) = 2
    /\ TagChannel(dispatched[1].text) # loops[i].targetSpeaker
    /\ "text" \notin due[TagChannel(dispatched[1].text)]
    /\ currentTranslationBuffer = <<>>

\* C26: an item is wrapped in the style in force in the step that sends it,
\* whatever the style was when the item was queued: a change of style made
\* while the item waits, across a disconnect and reconnect say, shows in the
\* text sent.
C26_StyleAtDispatch ==
  [][\A i \in 1..MaxLoops :
       SendStep(i) =>
         LET t == StripTag(loops'[i].item.text)
         IN  /\ voiceStyle' = voiceStyle
             /\ loops'[i].style = voiceStyle
             /\ loops'[i].scriptedText =
                  IF t = ClearsThroat THEN t ELSE Wrap(voiceStyle, t)]_vars

\* The two paragraphs of one snapshot, queued in one step, are held by two
\* instances: the first was sent in the conversational style and the second,
\* after a reconnect, in the natural one, with no marker.
C26_Witness ==
  \E i, j \in 1..MaxLoops :
    /\ loops[i].pc # "none" /\ loops[j].pc # "none"
    /\ loops[i].item.turnId = 1
    /\ loops[j].item.turnId = 2
    /\ loops[i].item.refData = loops[j].item.refData
    /\ loops[i].style = "conversational"
    /\ loops[i].scriptedText = <<"(casually)", "sp", "a">>
    /\ loops[j].style = "natural"
    /\ loops[j].scriptedText = <<"b">>

\* processNewData accepts a snapshot: its row is handed to segmentText.
AcceptStep == Len(segmented') > Len(segmented)

\* C27: a snapshot accepted while a drain is under way only adds its items
\* at the tail of the queue: the items already queued keep their order, the
\* turn context of the item in flight and the translation buffer stay as
\* they are, and no second consumer loop starts.
C27_AcceptOnlyAppends ==
  [][(AcceptStep /\ \E i \in 1..MaxLoops : loops[i].pc # "none") =>
       /\ queue' = queue \o SubSeq(enqueued', Len(enqueued) + 1, Len(enqueued'))
       /\ UNCHANGED <<currentTurnId, currentTranslationBuffer, loops>>]_vars

\* Channel c emits `interrupted`: what it owed is dropped, and neither audio
\* nor text came with the step.
InterruptedStep(c) ==
  /\ due[c] # {}
  /\ due'[c] = {}
  /\ endOfQueueTime' = endOfQueueTime
  /\ currentTranslationBuffer' = currentTranslationBuffer

\* C28 as stated: an interrupted event of any channel, the default one or a
\* named speaker's, stops the buffered audio of every streamer.
C28_AnyInterruptStopsAll ==
  [][\A c \in Speakers :
       InterruptedStep(c) => \A d \in Speakers : duration'[d] = 0]_vars

\* C28: an interrupted event of the default channel stops the buffered
\* audio of every streamer; an interrupted event of a named speaker channel
\* stops none.
C28_MainInterruptStopsAll ==
  [][\A c \in Speakers :
       InterruptedStep(c) =>
         IF c = "default"
           THEN \A d \in Speakers : duration'[d] = 0
           ELSE duration' = duration]_vars

\* The Female 1 channel broke off the answer to the item in flight before
\* any audio of it, and the audio the default streamer holds plays on.
C28_Witness ==
  \E i \in 1..MaxLoops :
    /\ InFlight(i)
    /\ loops[i].targetSpeaker = "Female 1"
    /\ due["Female 1"] = {}
    /\ endOfQueueTime["Female 1"] = loops[i].preSendEnd
    /\ duration["default"] > 0

\* The lines of a text: the pieces between its newlines.
RECURSIVE CutAtNewlines(_, _)
CutAtNewlines(s, cur) ==
  IF s = <<>> THEN <<cur>>
  ELSE IF Head(s) = "nl" THEN <<cur>> \o CutAtNewlines(Tail(s), <<>>)
  ELSE CutAtNewlines(Tail(s), Append(cur, Head(s)))

\* A line less the whitespace at its two ends.
Stripped(line) ==
  LET inner == {n \in 1..Len(line) : line[n] \notin Whitespace}
  IN  IF inner = {} THEN <<>>
      ELSE SubSeq(line, CHOOSE n \in inner : \A m \in inner : n <= m,
                        CHOOSE n \in inner : \A m \in inner : n >= m)

\* The non-blank lines of the rows, stripped, in source order, row by row.
RECURSIVE NonBlankLines(_)
NonBlankLines(rows) ==
  IF rows = <<>> THEN <<>>
  ELSE LET k == rows[Len(rows)]
           lines == CutAtNewlines(SnapshotTable[k].full_transcript_text, <<>>)
           kept == SelectSeq(lines, NonBlank)
       IN  NonBlankLines(SubSeq(rows, 1, Len(rows) - 1))
             \o [n \in 1..Len(kept) |-> [refData |-> k, text |-> Stripped(kept[n])]]

SourceOf(k) == SnapshotTable[k].full_transcript_text

\* C30: a snapshot delivered with an empty text changes nothing, lastSeenId
\* included, so that its id is accepted when it comes again with a text; a
\* snapshot whose text is blank lines only is accepted, and sets lastSeenId,
\* with nothing enqueued and no drain started.
C30_EmptyIgnoredBlankAccepted ==
  [][(lastDelivered' # lastDelivered \/ AcceptStep) =>
       LET k == lastDelivered'
       IN  /\ SourceOf(k) = <<>>
                => UNCHANGED <<lastProcessedId, segmented, seen, queue, enqueued,
                               loops, isProcessing, turns, paragraphCount>>
           /\ (SourceOf(k) # <<>> /\ SnapshotTable[k].id # lastProcessedId)
                => /\ segmented' = Append(segmented, k)
                   /\ lastProcessedId' = SnapshotTable[k].id
           /\ (AcceptStep /\ ~NonBlank(SourceOf(k)))
                => /\ lastProcessedId' = SnapshotTable[k].id
                   /\ UNCHANGED <<queue, enqueued, loops, isProcessing, turns,
                                  paragraphCount, currentTurnId>>]_vars

\* A text of blank lines was accepted under id 3 with nothing enqueued and
\* no loop started, and the empty text delivered next under id 2 left
\* lastSeenId at 3.
C30_Witness ==
  /\ connected
  /\ segmented = <<5>>
  /\ lastDelivered = 6
  /\ lastProcessedId = 3
  /\ enqueued = <<>>
  /\ ~isProcessing
  /\ \A i \in 1..MaxLoops : loops[i].pc = "none"

\* C31: while the effect's `connected` is false, lastSeenId and the queue
\* stay as they are: nothing is accepted or enqueued between a disconnect
\* and the next connect, a late poll response included.
C31_NothingAcceptedDisconnected ==
  [][(~connected /\ ~connected')
       => /\ lastProcessedId' = lastProcessedId
          /\ queue' = queue]_vars

\* A line that is a speaker tag and nothing else: its text is empty once the
\* tag is stripped.
TagOnly(raw) ==
  /\ raw # <<>>
  /\ TagChannel(raw) # "default"
  /\ ~NonBlank(Tail(raw))

\* C32: a segment that is a speaker tag and nothing else is never dispatched
\* to a channel, whatever the style.
C32_TagOnlyNeverSent ==
  \A n \in 1..Len(dispatched) : ~TagOnly(dispatched[n].text)

\* Call j of connect() takes a step: it starts, or the attempt it awaits
\* settles.
ConnectStep(j) == connecting'[j] # connecting[j]

\* What both readings of connect() share: the call starts by disconnecting
\* the five clients, its attempts follow ConnectOrder, and no error reaches
\* the caller.
ConnectInOrder(j) ==
  LET attempts == connecting'[j].attempts
  IN  /\ connecting[j].pc = 0
           => /\ clientStatus' = "disconnected"
              /\ \A c \in Speakers \ {"default"} : speakerStatus'[c] = "disconnected"
              /\ Len(attempts) = 1
      /\ \A n \in 1..Len(attempts) : attempts[n].channel = ConnectOrder[n]
      /\ ~connecting'[j].propagated

Candidate(n) == IF n = 0 THEN <<"new_function">> ELSE <<"new_function_", n>>

\* The names in use in a list of tools.
NamesOf(ts) == {ts[n].name : n \in 1..Len(ts)}

\* C34: after any sequence of addTool, removeTool, toggleTool and updateTool
\* the tool names are pairwise distinct; addTool adds the first of
\* new_function, new_function_1, new_function_2, ... that is not in use, and
\* updateTool changes nothing when it would give a tool a name another tool
\* has.
C34_ToolNamesDistinct ==
  [][called'.n > called.n =>
       /\ \A m, n \in 1..Len(tools') : m # n => tools'[m].name # tools'[n].name
       /\ called'.op = "addTool" =>
            /\ Len(tools') = Len(tools) + 1
            /\ SubSeq(tools', 1, Len(tools)) = tools
            /\ \E n \in 0..Len(tools) :
                 /\ tools'[Len(tools')].name = Candidate(n)
                 /\ Candidate(n) \notin NamesOf(tools)
                 /\ \A m \in 0..(n - 1) : Candidate(m) \in NamesOf(tools)
       /\ (/\ called'.op = "updateTool"
           /\ called'.key # called'.value.name
           /\ called'.value.name \in NamesOf(tools))
            => tools' = tools]_vars

\* addTool made new_function and new_function_1, and the update that would
\* have renamed the first to the name of the second left both as they were.
C34_Witness ==
  /\ called.op = "updateTool"
  /\ called.key = <<"new_function">>
  /\ called.value.name = <<"new_function_", 1>>
  /\ Len(tools) = 2
  /\ tools[1] = [name |-> <<"new_function">>, isEnabled |-> TRUE, description |-> ""]
  /\ tools[2] = [name |-> <<"new_function_", 1>>, isEnabled |-> TRUE, description |-> ""]

\* C35: updateTurn(id, update) changes no turn of another id and keeps the
\* number and the order of the turns: each turn of that id stays where it
\* was, with the fields of the update replaced; with an id no turn has it
\* changes nothing.  updateLastTurn changes nothing on an empty log, and
\* addTurn leaves the turns there were and puts the new one after them.
C35_LogStoreFrames ==
  [][called'.n > called.n =>
       /\ called'.op = "updateTurn" =>
            /\ Len(turns') = Len(turns)
            /\ \A n \in 1..Len(turns) :
                 IF turns[n].id = called'.key
                   THEN \A f \in DOMAIN turns[n] :
                          turns'[n][f] = IF f \in DOMAIN called'.value
                                           THEN called'.value[f]
                                           ELSE turns[n][f]
                   ELSE turns'[n] = turns[n]
            /\ (\A n \in 1..Len(turns) : turns[n].id # called'.key)
                 => turns' = turns
       /\ (called'.op = "updateLastTurn" /\ turns = <<>>) => turns' = <<>>
       /\ called'.op = "addTurn" =>
            /\ Len(turns') = Len(turns) + 1
            /\ SubSeq(turns', 1, Len(turns)) = turns
            /\ \A f \in DOMAIN called'.value :
                 turns'[Len(turns')][f] = called'.value[f]]_vars

\* Three turns were added, the first and the third with id 1, and
\* updateTurn(1, ...) gave those two their translation and left the second.
C35_Witness ==
  /\ called.op = "updateTurn"
  /\ called.key = 1
  /\ Len(turns) = 3
  /\ turns[1] = [id |-> 1, text |-> "t", translation |-> "x", timestamp |-> 1]
  /\ turns[2] = [id |-> 2, text |-> "t", translation |-> "", timestamp |-> 2]
  /\ turns[3] = [id |-> 1, text |-> "t", translation |-> "x", timestamp |-> 3]

====
